---- MODULE Spec2Model ----
(***************************************************************************)
(* tike.scan: adaptive trajectory discretisation (discrete_trajectory),    *)
(* the Probe decomposition object (Probe.line_offsets / procedure /        *)
(* coverage) and the coverage orchestrator (coverage_approx); and          *)
(* tike.coverage: coverage with _coverage_interface and line_offsets.      *)
(*                                                                         *)
(* Specifications.  Spec, FairSpec and SpecJump are one call of            *)
(* discrete_trajectory; SpecCov one call of coverage_approx; SpecProbe two *)
(* interleaved calls of Probe.coverage on a shared Probe; SpecCall one     *)
(* sequential call of Probe.coverage, where int() of a double quotient may *)
(* fall one below the exact value; SpecGrid one call of coverage.coverage; *)
(* SpecOffsets a call of each line-offset generator.                       *)
(*                                                                         *)
(* Numbers.  Lengths are integers in units of a quarter centimetre, so the *)
(* embedding radius 0.75 cm is 3.  Angles are integers in quarter turns,   *)
(* where cos and sin are exactly 0, 1 or -1.  Times are integers in ticks: *)
(* a tick is the resolution of the time representation.  Sums and          *)
(* differences of ticks are exact; the midpoint (tnext + t) / 2 of two     *)
(* ticks of odd sum is not a tick and is rounded half-to-even, as the      *)
(* floating point division rounds the midpoint of two adjacent doubles.    *)
(* Quotients of lengths (pixel_size / 16, width / ncells) are exact        *)
(* rationals <<numerator, denominator>> in lowest terms.                   *)
(***************************************************************************)
EXTENDS Integers, Sequences, FiniteSets, TLC

VARIABLES
    \* ---- discrete_trajectory: arguments
    trajectory, tmin, tmax, dx, dt, max_iter,
    \* ---- discrete_trajectory: locals (scan.py 479-481) and control
    position, time, dwell, nextxt, t, tnext, x, pc,
    \* ---- discrete_trajectory: history, TRUE once a candidate was deferred,
    \* the number of candidates rejected since the last acceptance and
    \* the last accepted time at which the stack was empty
    deferred, rejections, t0,
    \* ---- Probe: the fields of one Probe object shared by the calls
    width, aspect, line_width,
    \* ---- Probe.coverage: per call, the arguments, the locals of
    \* line_offsets and procedure, and the position in the code
    p_pixel_size, p_region, ppc, ncells, nh, nv, shift_h, shift_v,
    p_dx, ndt, p_line_width,
    \* ---- coverage_approx: arguments, locals and the position in the code
    procedure, region, pixel_size, ca_line_width, anisotropy,
    cpc, warned, ibox, ibox_shape, kernel,
    \* ---- one sequential call of Probe.coverage: the field density_profile,
    \* the list line_offsets returned, the number of density_profile
    \* evaluations, the list procedure() builds, the position in the code and
    \* the value returned
    density_profile, lines, evaluated, positions, mpc, result,
    \* ---- coverage.coverage: the arguments of the call, the locals, the
    \* position in the code and the request made to LIBTIKE.coverage
    call, frame, gpc, libtike

dtvars == <<trajectory, tmin, tmax, dx, dt, max_iter,
            position, time, dwell, nextxt, t, tnext, x, pc, deferred,
            rejections, t0>>

probevars == <<width, aspect, line_width, p_pixel_size, p_region, ppc, ncells,
               nh, nv, shift_h, shift_v, p_dx, ndt, p_line_width>>

covvars == <<procedure, region, pixel_size, ca_line_width, anisotropy,
             cpc, warned, ibox, ibox_shape, kernel>>

callvars == <<density_profile, lines, evaluated, positions, mpc, result>>

gridvars == <<call, frame, gpc, libtike>>

vars == <<dtvars, probevars, covvars, callvars, gridvars>>

(***************************************************************************)
(* Bounds of the model.                                                    *)
(***************************************************************************)
\* times of a call lie in 0..MaxT ticks
MaxT == 4
\* max_iter is drawn from 0..MaxIter
MaxIter == 3
\* times of a call on a path with one jump lie in 0..LongT ticks
LongT == 8
\* the recorded lists are kept up to this length; a run whose times ascend
\* strictly inside 0..LongT records at most LongT samples
MaxSamples == LongT + 2

(***************************************************************************)
(* Program constants.                                                      *)
(***************************************************************************)
\* thetahv_to_xyz(thv_coords, radius=0.75), in quarter centimetres
radius == 3

Min(a, b) == IF a <= b THEN a ELSE b
Max(a, b) == IF a >= b THEN a ELSE b

(***************************************************************************)
(* Exact rationals <<numerator, denominator>>, denominator > 0, in lowest  *)
(* terms: the values of the true divisions of the code.                    *)
(***************************************************************************)
Abs(n) == IF n < 0 THEN 0 - n ELSE n

RECURSIVE GCD(_, _)
GCD(a, b) == IF b = 0 THEN a ELSE GCD(b, a % b)

Rat(n, d) ==
    LET g == GCD(Abs(n), Abs(d))
        sg == IF d < 0 THEN 0 - 1 ELSE 1
    IN  << (sg * n) \div g, (sg * d) \div g >>

RInt(n) == << n, 1 >>
RDiv(a, b) == Rat(a[1] * b[2], a[2] * b[1])
RMul(a, b) == Rat(a[1] * b[1], a[2] * b[2])
RSub(a, b) == Rat(a[1] * b[2] - b[1] * a[2], a[2] * b[2])
RLess(a, b) == a[1] * b[2] < b[1] * a[2]
\* np.floor, np.ceil and int() of a rational; int() truncates toward zero
RFloor(a) == a[1] \div a[2]
RCeil(a) == 0 - ((0 - a[1]) \div a[2])
RTrunc(a) == IF a[1] >= 0 THEN RFloor(a) ELSE RCeil(a)

(***************************************************************************)
(* CoordinateEmbedding: thetahv_to_xyz and euclidian_dist.                 *)
(***************************************************************************)
\* np.cos / np.sin at a whole number of quarter turns
Cos4(q) == CASE q % 4 = 0 -> 1 [] q % 4 = 1 -> 0 [] q % 4 = 2 -> -1 [] OTHER -> 0
Sin4(q) == CASE q % 4 = 0 -> 0 [] q % 4 = 1 -> 1 [] q % 4 = 2 -> 0 [] OTHER -> -1

\* np.dot([radius, h, v], R) with R = [[cos, -sin, 0], [sin, cos, 0], [0, 0, 1]]
thetahv_to_xyz(p) ==
    LET c == Cos4(p[1])
        s == Sin4(p[1])
    IN  << radius * c + p[2] * s, (0 - radius) * s + p[2] * c, p[3] >>

\* a slip: the raw (theta, h, v) triple is taken as the point
RawCoords(p) == p

\* the points euclidian_dist subtracts: thetahv_to_xyz(a), thetahv_to_xyz(b)
Embed(p) == thetahv_to_xyz(p)

\* euclidian_dist(a, b) squared: d.dot(d) with d the difference of the embeddings
euclidian_dist2(a, b) ==
    LET A == Embed(a)
        B == Embed(b)
    IN  (A[1] - B[1]) * (A[1] - B[1]) + (A[2] - B[2]) * (A[2] - B[2])
        + (A[3] - B[3]) * (A[3] - B[3])

\* a slip: the comparison is strict
WithinStrict(a, b, d) == d > 0 /\ euclidian_dist2(a, b) < d * d

\* euclidian_dist(xnext, x) <= dx: the square root is never negative, so the
\* test fails for dx < 0 and compares the squares otherwise
Within(a, b, d) == d >= 0 /\ euclidian_dist2(a, b) <= d * d

(***************************************************************************)
(* AdaptiveSampler: discrete_trajectory.                                   *)
(***************************************************************************)
\* the (theta, h, v) points a trajectory visits
Positions == { <<0, 0, 0>>, <<0, 1, 0>>, <<1, 0, 1>> }
DxValues == { -1, 0, 1, 5 }
DtValues == 0 .. MaxT

\* min(t + dt, tmax)
NextTime(now, step, end) == Min(now + step, end)

\* (tnext + t) / 2, rounded half-to-even when the sum is odd
Midpoint(a, b) ==
    LET s == a + b
        f == s \div 2
    IN  IF s % 2 = 0 THEN f ELSE IF f % 2 = 0 THEN f ELSE f + 1

\* elif len(nextxt) > max_iter
Exceeded(stack, limit) == Len(stack) > limit

\* the candidate (xnext, tnext) of this iteration: a fresh one when the stack
\* is empty, else the top of the stack
Candidate ==
    IF nextxt = <<>> THEN << trajectory[tnext], tnext >> ELSE nextxt[Len(nextxt)]

\* a slip: an acceptance discards the deferred candidates
PoppedAll == <<>>

\* the stack after nextxt.pop(), untouched when the candidate is fresh
Popped == IF nextxt = <<>> THEN <<>> ELSE SubSeq(nextxt, 1, Len(nextxt) - 1)

\* list.append, kept up to MaxSamples entries
Record(list, e) == IF Len(list) < MaxSamples THEN Append(list, e) ELSE list

\* a slip: the next point is recorded instead of the held one
AcceptedNext(held, cand) == cand

\* position.append(x); time.append(t): the sample recorded is the held point
Accepted(held, cand) == held

\* lines 479-481: the state when the loop is first reached
InitDT ==
    /\ tmin \in 0 .. 1
    /\ tmax \in 0 .. MaxT
    /\ trajectory \in [ tmin .. Max(tmin, tmax) -> Positions ]
    /\ dx \in DxValues
    /\ dt \in DtValues
    /\ max_iter \in 0 .. MaxIter
    /\ position = <<>>
    /\ time = <<>>
    /\ dwell = <<>>
    /\ nextxt = <<>>
    /\ t = tmin
    /\ tnext = NextTime(tmin, dt, tmax)
    /\ x = trajectory[tmin]
    /\ pc = "while"
    /\ deferred = FALSE
    /\ rejections = 0
    /\ t0 = tmin

\* the paths that rest at one point and jump to another at tick j
JumpPaths(end) ==
    { [ s \in 0 .. end |-> IF s < j THEN <<0, 0, 0>> ELSE <<0, 1, 0>> ] :
        j \in 0 .. end + 1 }

\* lines 479-481 for a call over a longer time range on a path with at
\* most one jump
InitJump ==
    /\ tmin = 0
    /\ tmax \in 1 .. LongT
    /\ trajectory \in JumpPaths(tmax)
    /\ dx \in { 0, 1 }
    /\ dt \in 1 .. LongT
    /\ max_iter \in 0 .. MaxIter
    /\ position = <<>>
    /\ time = <<>>
    /\ dwell = <<>>
    /\ nextxt = <<>>
    /\ t = tmin
    /\ tnext = NextTime(tmin, dt, tmax)
    /\ x = trajectory[tmin]
    /\ pc = "while"
    /\ deferred = FALSE
    /\ rejections = 0
    /\ t0 = tmin

\* while t < tmax fails: return position, dwell, time
Return ==
    /\ pc = "while"
    /\ ~ (t < tmax)
    /\ pc' = "return"
    /\ UNCHANGED <<trajectory, tmin, tmax, dx, dt, max_iter,
                   position, time, dwell, nextxt, t, tnext, x, deferred,
                   rejections, t0,
                   probevars, covvars, callvars, gridvars>>

\* lines 485-488
Raise ==
    /\ pc = "while"
    /\ t < tmax
    /\ nextxt # <<>>
    /\ Exceeded(nextxt, max_iter)
    /\ pc' = "RuntimeError"
    /\ UNCHANGED <<trajectory, tmin, tmax, dx, dt, max_iter,
                   position, time, dwell, nextxt, t, tnext, x, deferred,
                   rejections, t0,
                   probevars, covvars, callvars, gridvars>>

\* lines 483-484 or 490, then 491-496
Accept ==
    /\ pc = "while"
    /\ t < tmax
    /\ nextxt = <<>> \/ ~ Exceeded(nextxt, max_iter)
    /\ LET xn == Candidate[1]
           tn == Candidate[2]
       IN  /\ Within(xn, x, dx)
           /\ position' = Record(position, Accepted(x, xn))
           /\ time' = Record(time, Accepted(t, tn))
           /\ dwell' = Record(dwell, tn - t)
           /\ x' = xn
           /\ t' = tn
           /\ tnext' = NextTime(tn, dt, tmax)
           /\ nextxt' = Popped
    /\ rejections' = 0
    /\ t0' = IF Popped = <<>> THEN Candidate[2] ELSE t0
    /\ UNCHANGED <<trajectory, tmin, tmax, dx, dt, max_iter, pc, deferred,
                   probevars, covvars, callvars, gridvars>>

\* lines 483-484 or 490, then 497-500
Bisect ==
    /\ pc = "while"
    /\ t < tmax
    /\ nextxt = <<>> \/ ~ Exceeded(nextxt, max_iter)
    /\ LET xn == Candidate[1]
           tn == Candidate[2]
           tm == Midpoint(tn, t)
       IN  /\ ~ Within(xn, x, dx)
           /\ nextxt' = Append(Append(Popped, <<xn, tn>>), <<trajectory[tm], tm>>)
           /\ tnext' = tm
    /\ deferred' = TRUE
    /\ rejections' = rejections + 1
    /\ t0' = t0
    /\ UNCHANGED <<trajectory, tmin, tmax, dx, dt, max_iter,
                   position, time, dwell, t, x, pc, probevars, covvars, callvars, gridvars>>

IdleDT ==
    /\ trajectory = <<>>
    /\ tmin = 0
    /\ tmax = 0
    /\ dx = 0
    /\ dt = 0
    /\ max_iter = 0
    /\ position = <<>>
    /\ time = <<>>
    /\ dwell = <<>>
    /\ nextxt = <<>>
    /\ t = 0
    /\ tnext = 0
    /\ x = <<0, 0, 0>>
    /\ pc = "idle"
    /\ deferred = FALSE
    /\ rejections = 0
    /\ t0 = 0

(***************************************************************************)
(* CoverageOrchestrator: coverage_approx.                                  *)
(***************************************************************************)
Axes == 1 .. 3
\* region bounds are drawn from -1 .. MaxB
MaxB == 2
Coords == (0 - 1) .. MaxB
Regions == [ Axes -> Coords \X Coords ]
PixelSizes == { 1, 2, 3 }
\* rays [theta, h, v, weight]
Procedures ==
    { << <<0, RInt(2), RInt(4), RInt(3)>> >>,
      << <<1, RInt(0), Rat(5, 2), RInt(1)>>, <<0, RInt(3), RInt(0), Rat(1, 2)>> >> }
LineWidths == { <<1, 1>>, <<1, 2>> }

\* np.all(box[:, 0] <= box[:, 1])
RegionOrdered(box) == \A a \in Axes : box[a][1] <= box[a][2]

\* a slip: np.all in place of np.any
MisalignedAll(box, ps) == \A a \in Axes : box[a][1] % ps # 0 /\ box[a][2] % ps # 0

\* np.any(box % pixel_size != 0)
Misaligned(box, ps) == \E a \in Axes : box[a][1] % ps # 0 \/ box[a][2] % ps # 0

\* a slip: the upper bound is rounded down like the lower one
IboxHiFloor(b, ps) == RFloor(Rat(b, ps))

\* a slip: the grid is measured from the origin, not from the region minimum
IboxLoOrigin(b, ps) == 0

\* ibox[:, 0] = np.floor(box[:, 0] / pixel_size)
IboxLo(b, ps) == RFloor(Rat(b, ps))

\* ibox[:, 1] = np.ceil(box[:, 1] / pixel_size)
IboxHi(b, ps) == RCeil(Rat(b, ps))

\* a slip: the weight is scaled by line_width / pixel_size, not by its square
ScaleRayLinear(ray, ps, lw) ==
    << ray[1], RDiv(ray[2], RInt(ps)), RDiv(ray[3], RInt(ps)),
       RDiv(RMul(ray[4], lw), RInt(ps)) >>

\* h /= pixel_size; v /= pixel_size; w = weight * line_width**2 / pixel_size**2
ScaleRay(ray, ps, lw) ==
    << ray[1], RDiv(ray[2], RInt(ps)), RDiv(ray[3], RInt(ps)),
       RDiv(RMul(ray[4], RMul(lw, lw)), RInt(ps * ps)) >>

\* procedure = np.array(procedure) makes a copy: the divisions in place
\* change the copy, and the caller's array keeps its rays
CallersArray(rays, scaled) == rays

\* a slip: the flag is not looked at
AnisotropyIgnored(flag) == FALSE

\* if anisotropy:
AnisotropyRequested(flag) == flag

NoCall == [ called |-> FALSE ]

IdleCov ==
    /\ procedure = <<>>
    /\ region = [ a \in Axes |-> <<0, 0>> ]
    /\ pixel_size = 1
    /\ ca_line_width = <<1, 1>>
    /\ anisotropy = FALSE
    /\ cpc = "idle"
    /\ warned = FALSE
    /\ ibox = [ a \in Axes |-> <<0, 0>> ]
    /\ ibox_shape = [ a \in Axes |-> 0 ]
    /\ kernel = NoCall

\* a call coverage_approx(procedure, region, pixel_size, line_width, anisotropy)
InitCov ==
    /\ procedure \in Procedures
    /\ region \in Regions
    /\ pixel_size \in PixelSizes
    /\ ca_line_width \in LineWidths
    /\ anisotropy \in BOOLEAN
    /\ cpc = "L270"
    /\ warned = FALSE
    /\ ibox = [ a \in Axes |-> <<0, 0>> ]
    /\ ibox_shape = [ a \in Axes |-> 0 ]
    /\ kernel = NoCall

\* lines 270-272
CheckRegion ==
    /\ cpc = "L270"
    /\ cpc' = IF RegionOrdered(region) THEN "L273" ELSE "AssertionError"
    /\ UNCHANGED <<procedure, region, pixel_size, ca_line_width, anisotropy,
                   warned, ibox, ibox_shape, kernel, dtvars, probevars, callvars, gridvars>>

\* lines 273-279; the differences of the rounded bounds are whole numbers,
\* which astype(int) keeps
Align ==
    /\ cpc = "L273"
    /\ warned' = Misaligned(region, pixel_size)
    /\ ibox' = [ a \in Axes |->
                   << IboxLo(region[a][1], pixel_size),
                      IboxHi(region[a][2], pixel_size) >> ]
    /\ ibox_shape' = [ a \in Axes |-> ibox'[a][2] - ibox'[a][1] ]
    /\ cpc' = "L281"
    /\ UNCHANGED <<procedure, region, pixel_size, ca_line_width, anisotropy,
                   kernel, dtvars, probevars, callvars, gridvars>>

\* lines 281-282
Unsupported ==
    /\ cpc = "L281"
    /\ AnisotropyRequested(anisotropy)
    /\ cpc' = "NotImplementedError"
    /\ UNCHANGED <<procedure, region, pixel_size, ca_line_width, anisotropy,
                   warned, ibox, ibox_shape, kernel, dtvars, probevars, callvars, gridvars>>

\* lines 284-298: the zero grid, the scaled copy of the procedure and the one
\* call of the accumulation kernel, whose result is returned
Kernel ==
    /\ cpc = "L281"
    /\ ~ AnisotropyRequested(anisotropy)
    /\ LET scaled == [ i \in 1 .. Len(procedure) |->
                        ScaleRay(procedure[i], pixel_size, ca_line_width) ]
       IN  /\ kernel' = [ called |-> TRUE,
                          grid_shape |-> ibox_shape,
                          rays |-> scaled ]
           /\ procedure' = CallersArray(procedure, scaled)
    /\ cpc' = "return"
    /\ UNCHANGED <<region, pixel_size, ca_line_width, anisotropy,
                   warned, ibox, ibox_shape, dtvars, probevars, callvars, gridvars>>

NextCov == CheckRegion \/ Align \/ Unsupported \/ Kernel

(***************************************************************************)
(* ProbeDecomposer and ProcedureBuilder: calls of Probe.coverage on one    *)
(* shared Probe object.  A call is a thread of the caller; a step is the   *)
(* code between two accesses of the shared field self.line_width.          *)
(***************************************************************************)
Calls == 1 .. 2
ProbeWidths == { 2, 3 }
Aspects == { <<1, 1>>, <<1, 2>> }
\* pixel_size / 16 is 1, 2 and 4
ProbePixelSizes == { 16, 32, 64 }
ProbeRegions ==
    { [ a \in Axes |-> <<0, 2>> ],
      [ a \in Axes |-> IF a = 2 THEN <<2, 0>> ELSE <<0, 2>> ] }

\* height = self.width * self.aspect
Height == RMul(RInt(width), aspect)

\* __init__: self.line_width = 1 (centimetre)
InitLineWidth == RInt(4)

IdleProbe ==
    /\ width = 0
    /\ aspect = <<1, 1>>
    /\ line_width = InitLineWidth
    /\ p_pixel_size = <<>>
    /\ p_region = <<>>
    /\ ppc = <<>>
    /\ ncells = <<>>
    /\ nh = <<>>
    /\ nv = <<>>
    /\ shift_h = <<>>
    /\ shift_v = <<>>
    /\ p_dx = <<>>
    /\ ndt = <<>>
    /\ p_line_width = <<>>

\* lines 125-136, then each caller enters Probe.coverage with its arguments
InitProbe ==
    /\ width \in ProbeWidths
    /\ aspect \in Aspects
    /\ line_width = InitLineWidth
    /\ p_pixel_size \in [ Calls -> ProbePixelSizes ]
    /\ p_region \in [ Calls -> ProbeRegions ]
    /\ ppc = [ c \in Calls |-> "L153" ]
    /\ ncells = [ c \in Calls |-> 0 ]
    /\ nh = [ c \in Calls |-> 0 ]
    /\ nv = [ c \in Calls |-> 0 ]
    /\ shift_h = [ c \in Calls |-> RInt(0) ]
    /\ shift_v = [ c \in Calls |-> RInt(0) ]
    /\ p_dx = [ c \in Calls |-> RInt(0) ]
    /\ ndt = [ c \in Calls |-> 0 ]
    /\ p_line_width = [ c \in Calls |-> RInt(0) ]

\* line 153: self.line_width = pixel_size/16
L153(c) ==
    /\ ppc[c] = "L153"
    /\ line_width' = Rat(p_pixel_size[c], 16)
    /\ ppc' = [ ppc EXCEPT ![c] = "L154w" ]
    /\ UNCHANGED <<width, aspect, p_pixel_size, p_region, ncells, nh, nv,
                   shift_h, shift_v, p_dx, ndt, p_line_width, dtvars, covvars, callvars, gridvars>>

\* lines 154-156, first operand: width < self.line_width
L154w(c) ==
    /\ ppc[c] = "L154w"
    /\ ppc' = [ ppc EXCEPT ![c] = IF RLess(RInt(width), line_width)
                                  THEN "NotImplementedError" ELSE "L154h" ]
    /\ UNCHANGED <<width, aspect, line_width, p_pixel_size, p_region, ncells,
                   nh, nv, shift_h, shift_v, p_dx, ndt, p_line_width,
                   dtvars, covvars, callvars, gridvars>>

\* lines 154-156, second operand: height < self.line_width
L154h(c) ==
    /\ ppc[c] = "L154h"
    /\ ppc' = [ ppc EXCEPT ![c] = IF RLess(Height, line_width)
                                  THEN "NotImplementedError" ELSE "L159" ]
    /\ UNCHANGED <<width, aspect, line_width, p_pixel_size, p_region, ncells,
                   nh, nv, shift_h, shift_v, p_dx, ndt, p_line_width,
                   dtvars, covvars, callvars, gridvars>>

\* line 159: ncells = np.ceil(width / self.line_width)
L159(c) ==
    /\ ppc[c] = "L159"
    /\ ncells' = [ ncells EXCEPT ![c] = RCeil(RDiv(RInt(width), line_width)) ]
    /\ ppc' = [ ppc EXCEPT ![c] = "L160" ]
    /\ UNCHANGED <<width, aspect, line_width, p_pixel_size, p_region,
                   nh, nv, shift_h, shift_v, p_dx, ndt, p_line_width,
                   dtvars, covvars, callvars, gridvars>>

\* line 160: self.line_width = width / ncells
L160(c) ==
    /\ ppc[c] = "L160"
    /\ line_width' = Rat(width, ncells[c])
    /\ ppc' = [ ppc EXCEPT ![c] = "L161" ]
    /\ UNCHANGED <<width, aspect, p_pixel_size, p_region, ncells, nh, nv,
                   shift_h, shift_v, p_dx, ndt, p_line_width, dtvars, covvars, callvars, gridvars>>

\* line 161: the count int(width/self.line_width) of gh
L161(c) ==
    /\ ppc[c] = "L161"
    /\ nh' = [ nh EXCEPT ![c] = RTrunc(RDiv(RInt(width), line_width)) ]
    /\ ppc' = [ ppc EXCEPT ![c] = "L162" ]
    /\ UNCHANGED <<width, aspect, line_width, p_pixel_size, p_region, ncells,
                   nv, shift_h, shift_v, p_dx, ndt, p_line_width,
                   dtvars, covvars, callvars, gridvars>>

\* line 162: the shift (self.line_width - width) / 2 of gh
L162(c) ==
    /\ ppc[c] = "L162"
    /\ shift_h' = [ shift_h EXCEPT
                      ![c] = RDiv(RSub(line_width, RInt(width)), RInt(2)) ]
    /\ ppc' = [ ppc EXCEPT ![c] = "L163" ]
    /\ UNCHANGED <<width, aspect, line_width, p_pixel_size, p_region, ncells,
                   nh, nv, shift_v, p_dx, ndt, p_line_width, dtvars, covvars, callvars, gridvars>>

\* line 163: the count int(height/self.line_width) of gv
L163(c) ==
    /\ ppc[c] = "L163"
    /\ nv' = [ nv EXCEPT ![c] = RTrunc(RDiv(Height, line_width)) ]
    /\ ppc' = [ ppc EXCEPT ![c] = "L165" ]
    /\ UNCHANGED <<width, aspect, line_width, p_pixel_size, p_region, ncells,
                   nh, shift_h, shift_v, p_dx, ndt, p_line_width,
                   dtvars, covvars, callvars, gridvars>>

\* lines 165-173: the shift (self.line_width - height) / 2 of gv, then the
\* nh * nv lines with their density_profile weights
L165(c) ==
    /\ ppc[c] = "L165"
    /\ shift_v' = [ shift_v EXCEPT ![c] = RDiv(RSub(line_width, Height), RInt(2)) ]
    /\ ppc' = [ ppc EXCEPT ![c] = "L195" ]
    /\ UNCHANGED <<width, aspect, line_width, p_pixel_size, p_region, ncells,
                   nh, nv, shift_h, p_dx, ndt, p_line_width, dtvars, covvars, callvars, gridvars>>

\* line 195: dx = self.line_width
L195(c) ==
    /\ ppc[c] = "L195"
    /\ p_dx' = [ p_dx EXCEPT ![c] = line_width ]
    /\ ppc' = [ ppc EXCEPT ![c] = "L199" ]
    /\ UNCHANGED <<width, aspect, line_width, p_pixel_size, p_region, ncells,
                   nh, nv, shift_h, shift_v, ndt, p_line_width,
                   dtvars, covvars, callvars, gridvars>>

\* lines 199-208, one line of the loop: discrete_trajectory(line_trajectory,
\* tmin, tmax, dx, dt) is called; it returns or raises its RuntimeError
SampleLine(c) ==
    /\ ppc[c] = "L199"
    /\ ndt[c] < nh[c] * nv[c]
    /\ ndt' = [ ndt EXCEPT ![c] = ndt[c] + 1 ]
    /\ \E outcome \in { "L199", "RuntimeError" } :
          ppc' = [ ppc EXCEPT ![c] = outcome ]
    /\ UNCHANGED <<width, aspect, line_width, p_pixel_size, p_region, ncells,
                   nh, nv, shift_h, shift_v, p_dx, p_line_width,
                   dtvars, covvars, callvars, gridvars>>

\* lines 209 and 228-232: the loop is over; np.concatenate refuses an empty
\* list; the argument line_width=self.line_width is read
L228(c) ==
    /\ ppc[c] = "L199"
    /\ ndt[c] = nh[c] * nv[c]
    /\ IF ndt[c] = 0
       THEN /\ ppc' = [ ppc EXCEPT ![c] = "ValueError" ]
            /\ UNCHANGED p_line_width
       ELSE /\ ppc' = [ ppc EXCEPT ![c] = "L270" ]
            /\ p_line_width' = [ p_line_width EXCEPT ![c] = line_width ]
    /\ UNCHANGED <<width, aspect, line_width, p_pixel_size, p_region, ncells,
                   nh, nv, shift_h, shift_v, p_dx, ndt, dtvars, covvars, callvars, gridvars>>

\* coverage_approx, lines 270-298, with anisotropy=False: the region
\* assertion, then the kernel call and the return
P_CoverageApprox(c) ==
    /\ ppc[c] = "L270"
    /\ ppc' = [ ppc EXCEPT ![c] = IF RegionOrdered(p_region[c])
                                  THEN "return" ELSE "AssertionError" ]
    /\ UNCHANGED <<width, aspect, line_width, p_pixel_size, p_region, ncells,
                   nh, nv, shift_h, shift_v, p_dx, ndt, p_line_width,
                   dtvars, covvars, callvars, gridvars>>

NextProbe ==
    \E c \in Calls :
        \/ L153(c) \/ L154w(c) \/ L154h(c) \/ L159(c) \/ L160(c)
        \/ L161(c) \/ L162(c) \/ L163(c) \/ L165(c) \/ L195(c)
        \/ SampleLine(c) \/ L228(c) \/ P_CoverageApprox(c)

(***************************************************************************)
(* One call of Probe.coverage, step by step in program order: line_offsets,*)
(* procedure, np.concatenate, coverage_approx.  The arguments trajectory,  *)
(* tmin, tmax, dt, region, pixel_size and anisotropy are the variables of  *)
(* the same names: Probe.coverage hands them on unchanged.                 *)
(*                                                                         *)
(* Offsets and weights are rationals.  A stored quotient is a double: it   *)
(* is the rational itself when the denominator is a power of two, and a    *)
(* rounded neighbour otherwise.                                            *)
(***************************************************************************)
RAdd(a, b) == Rat(a[1] * b[2] + b[1] * a[2], a[2] * b[2])
RLeq(a, b) == a[1] * b[2] <= b[1] * a[2]

RECURSIVE IsPow2(_)
IsPow2(n) == n = 1 \/ (n > 1 /\ n % 2 = 0 /\ IsPow2(n \div 2))

\* whether the rational r is a double
Representable(r) == IsPow2(r[2])

\* int(a / b) where b is a stored quotient: a / b is rounded to a double and
\* then truncated.  When b was rounded and a / b is the whole number k in
\* exact arithmetic, the double a / b is k or the double just below k, and
\* int() gives k or k - 1 (0.1 / (0.1 / 11) is 10.999999999999998).
IntOfQuotient(a, b) ==
    LET q == RDiv(a, b)
    IN  IF q[2] = 1 /\ q[1] > 0 /\ ~ Representable(b)
        THEN { q[1] - 1, q[1] }
        ELSE { RTrunc(q) }

\* np.linspace(0, stop, num, endpoint=False) + shift
Linspace(stop, num, shift) ==
    [ i \in 1 .. num |-> RAdd(RMul(RInt(i - 1), RDiv(stop, RInt(num))), shift) ]

\* a value density_profile returns: a Python int, a Python float or a
\* numpy float64
PyInt(n) == [ kind |-> "int", val |-> RInt(n) ]
PyFloat(r) == [ kind |-> "float", val |-> r ]
Float64(r) == [ kind |-> "float64", val |-> r ]

\* the density profiles a Probe is built with
Profiles == { "one", "two", "half", "heaviside", "abs" }

\* self.density_profile(h, v)
Density(f, h, v) ==
    CASE f = "one" -> PyInt(1)                        \* lambda h, v: 1
      [] f = "two" -> PyInt(2)                        \* lambda h, v: 2
      [] f = "half" -> PyFloat(Rat(1, 2))             \* lambda h, v: 0.5
      [] f = "heaviside" ->                           \* np.heaviside(h, 1)
            IF RLess(h, RInt(0)) THEN Float64(RInt(0)) ELSE Float64(RInt(1))
      [] OTHER -> Float64(Rat(Abs(v[1]), v[2]))       \* np.abs(v)

\* lines 153-156 of line_offsets: the line width of the first guess and the
\* test that refuses a probe smaller than it
FirstLineWidth(ps) == Rat(ps, 16)

\* a slip: the height is not tested
TooLargeForWidth(ps) == RLess(RInt(width), FirstLineWidth(ps))

TooLargePixels(ps) ==
    \/ RLess(RInt(width), FirstLineWidth(ps))
    \/ RLess(Height, FirstLineWidth(ps))

\* lines 159-160
NCells(ps) == RCeil(RDiv(RInt(width), FirstLineWidth(ps)))
FinalLineWidth(ps) == Rat(width, NCells(ps))

\* lines 161-165: gh and gv for the counts kh and kv that int() produced
Gh(lw, kh) == Linspace(RInt(width), kh, RDiv(RSub(lw, RInt(width)), RInt(2)))
Gv(lw, kv) == Linspace(Height, kv, RDiv(RSub(lw, Height), RInt(2)))

\* lines 166-173: np.meshgrid(gh, gv, indexing='xy') flattened row by row,
\* the rows [0, h, v] and the pairs (row, density_profile(h, v))
LinesOf(gh, gv) ==
    [ k \in 1 .. Len(gh) * Len(gv) |->
        LET h == gh[((k - 1) % Len(gh)) + 1]
            v == gv[((k - 1) \div Len(gh)) + 1]
        IN  [ offset |-> << 0, h, v >>,
              weight |-> Density(density_profile, h, v) ] ]

\* the per-call variables of the interleaved model, unused here
percall == <<p_pixel_size, p_region, ppc, ncells, nh, nv, shift_h, shift_v,
             p_dx, ndt, p_line_width>>

\* the locals of discrete_trajectory and of coverage_approx
dtlocals == <<dx, max_iter, position, time, dwell, nextxt, t, tnext, x, pc,
              deferred, rejections, t0>>
covlocals == <<cpc, warned, ibox, ibox_shape, kernel>>

CallWidths == { 2, 3 }
CallAspects == { <<1, 1>>, <<1, 2>> }
\* pixel_size / 16 is 3/4, 1, 2 and 4
CallPixelSizes == { 12, 16, 32, 64 }
CallRegions ==
    { [ a \in Axes |-> <<0, 40>> ],
      [ a \in Axes |-> IF a = 2 THEN <<40, 0>> ELSE <<0 - 8, 40>> ] }
CallTimes == 0 .. 2
\* at rest; a raster along h; a quarter turn with a climb along v at every
\* tick; a quarter turn at the last tick
CallTrajectories ==
    { [ s \in CallTimes |-> <<0, 0, 0>> ],
      [ s \in CallTimes |-> <<0, s, 0>> ],
      [ s \in CallTimes |-> <<s, 0, s>> ],
      [ s \in CallTimes |-> IF s < 2 THEN <<0, 1, 0>> ELSE <<1, 1, 0>> ] }

IdleCall ==
    /\ density_profile = "one"
    /\ lines = <<>>
    /\ evaluated = 0
    /\ positions = <<>>
    /\ mpc = "idle"
    /\ result = "none"

\* Probe(density_profile, width, aspect), lines 125-136, and the entry of
\* coverage(trajectory, region, pixel_size, tmin, tmax, dt, anisotropy)
InitCall ==
    /\ density_profile \in Profiles
    /\ width \in CallWidths
    /\ aspect \in CallAspects
    /\ line_width = InitLineWidth
    /\ trajectory \in CallTrajectories
    /\ tmin = 0
    /\ tmax \in { 0, 2 }
    /\ dt \in { 1, 2 }
    /\ region \in CallRegions
    /\ pixel_size \in CallPixelSizes
    /\ anisotropy \in BOOLEAN
    /\ lines = <<>>
    /\ evaluated = 0
    /\ positions = <<>>
    /\ mpc = "L194"
    /\ result = "none"
    \* no call of discrete_trajectory or coverage_approx is in progress
    /\ dx = 0 /\ max_iter = 0 /\ position = <<>> /\ time = <<>> /\ dwell = <<>>
    /\ nextxt = <<>> /\ t = 0 /\ tnext = 0 /\ x = <<0, 0, 0>> /\ pc = "idle"
    /\ deferred = FALSE /\ rejections = 0 /\ t0 = 0
    /\ procedure = <<>> /\ ca_line_width = <<1, 1>> /\ cpc = "idle"
    /\ warned = FALSE /\ ibox = [ a \in Axes |-> <<0, 0>> ]
    /\ ibox_shape = [ a \in Axes |-> 0 ] /\ kernel = NoCall
    /\ p_pixel_size = <<>> /\ p_region = <<>> /\ ppc = <<>> /\ ncells = <<>>
    /\ nh = <<>> /\ nv = <<>> /\ shift_h = <<>> /\ shift_v = <<>>
    /\ p_dx = <<>> /\ ndt = <<>> /\ p_line_width = <<>>

\* line 194, lines = self.line_offsets(pixel_size=pixel_size), all of lines
\* 151-173: the refusal leaves self.line_width at pixel_size/16 and
\* evaluates no density_profile; otherwise every row is weighed once
LineOffsets ==
    /\ mpc = "L194"
    /\ IF TooLargePixels(pixel_size)
       THEN /\ line_width' = FirstLineWidth(pixel_size)
            /\ mpc' = "NotImplementedError"
            /\ UNCHANGED <<lines, evaluated>>
       ELSE LET lw == FinalLineWidth(pixel_size)
            IN  /\ line_width' = lw
                /\ \E kh \in IntOfQuotient(RInt(width), lw) :
                   \E kv \in IntOfQuotient(Height, lw) :
                      lines' = LinesOf(Gh(lw, kh), Gv(lw, kv))
                /\ evaluated' = Len(lines')
                /\ mpc' = "L199"
    /\ UNCHANGED <<width, aspect, percall, density_profile, positions, result,
                   trajectory, tmin, tmax, dt, dtlocals, procedure, region,
                   pixel_size, ca_line_width, anisotropy, covlocals, gridvars>>

\* thetahv_to_xyz and euclidian_dist for points [theta, h, v] with rational
\* h and v
REmbed(p) ==
    LET c == Cos4(p[1])
        s == Sin4(p[1])
    IN  << RAdd(RInt(radius * c), RMul(p[2], RInt(s))),
           RAdd(RInt((0 - radius) * s), RMul(p[2], RInt(c))),
           p[3] >>

RDist2(a, b) ==
    LET A == REmbed(a)
        B == REmbed(b)
        d1 == RSub(A[1], B[1])
        d2 == RSub(A[2], B[2])
        d3 == RSub(A[3], B[3])
    IN  RAdd(RAdd(RMul(d1, d1), RMul(d2, d2)), RMul(d3, d3))

\* euclidian_dist(xnext, x) <= dx
RWithin(a, b, d) == RLeq(RInt(0), d) /\ RLeq(RDist2(a, b), RMul(d, d))

\* discrete_trajectory(..., max_iter=16): procedure passes no max_iter
DefaultMaxIter == 16
\* iterations of the sampling loop that are followed for one line
MaxLoop == 40

\* trajectory(t) + offset
AddOffset(p, offset) ==
    << p[1] + offset[1], RAdd(RInt(p[2]), offset[2]), RAdd(RInt(p[3]), offset[3]) >>

\* def line_trajectory(t): return trajectory(t) + offset
line_trajectory(offset) == [ s \in CallTimes |-> AddOffset(trajectory[s], offset) ]

RECURSIVE SamplingLoop(_, _, _, _, _, _)
\* lines 482-502 from the loop state st = [t, tnext, x, nextxt, position,
\* dwell]: the value returned, the RuntimeError, or "running" when the loop
\* has not ended after fuel iterations
SamplingLoop(path, end, d, step, st, fuel) ==
    IF ~ (st.t < end)
    THEN [ outcome |-> "return", position |-> st.position, dwell |-> st.dwell ]
    ELSE IF st.nextxt # <<>> /\ Exceeded(st.nextxt, DefaultMaxIter)
    THEN [ outcome |-> "RuntimeError", position |-> <<>>, dwell |-> <<>> ]
    ELSE IF fuel = 0
    THEN [ outcome |-> "running", position |-> <<>>, dwell |-> <<>> ]
    ELSE
        LET n == Len(st.nextxt)
            cand == IF n = 0 THEN << path[st.tnext], st.tnext >> ELSE st.nextxt[n]
            rest == IF n = 0 THEN <<>> ELSE SubSeq(st.nextxt, 1, n - 1)
        IN  IF RWithin(cand[1], st.x, d)
            THEN SamplingLoop(path, end, d, step,
                     [ t |-> cand[2],
                       tnext |-> NextTime(cand[2], step, end),
                       x |-> cand[1],
                       nextxt |-> rest,
                       position |-> Append(st.position, st.x),
                       dwell |-> Append(st.dwell, cand[2] - st.t) ],
                     fuel - 1)
            ELSE LET mid == Midpoint(cand[2], st.t)
                 IN  SamplingLoop(path, end, d, step,
                         [ st EXCEPT
                             !.tnext = mid,
                             !.nextxt = rest \o << cand, << path[mid], mid >> >> ],
                         fuel - 1)

\* discrete_trajectory(trajectory=path, tmin=start, tmax=end, dx=d, dt=step)
discrete_trajectory(path, start, end, d, step) ==
    SamplingLoop(path, end, d, step,
        [ t |-> start,
          tnext |-> NextTime(start, step, end),
          x |-> path[start],
          nextxt |-> <<>>,
          position |-> <<>>,
          dwell |-> <<>> ],
        MaxLoop)

\* one entry of dwell * weight for a float64 weight, and for the int 1
\* (list * 1 is the list itself)
Weighted(seconds, w) == RMul(RInt(seconds), w.val)

\* np.concatenate([position, np.atleast_2d(dwell * weight).T], axis=1):
\* TypeError for a Python float (list * float), ValueError when the column
\* has not one entry per position (list * int repeats the list) or there
\* is no position, else the rays [theta, h, v, dwell * weight]
WithWeights(res, w) ==
    LET n == Len(res.position)
    IN  IF w.kind = "float" THEN [ error |-> "TypeError", rays |-> <<>> ]
        ELSE IF n = 0 THEN [ error |-> "ValueError", rays |-> <<>> ]
        ELSE IF w.kind = "int" /\ w.val # RInt(1)
        THEN [ error |-> "ValueError", rays |-> <<>> ]
        ELSE [ error |-> "none",
               rays |-> [ i \in 1 .. n |->
                            << res.position[i][1], res.position[i][2],
                               res.position[i][3],
                               Weighted(res.dwell[i], w) >> ] ]

\* lines 195-208, one pass of the loop over lines: the line's path is
\* sampled with dx = self.line_width and the weighted rays are appended.  A
\* sampling loop that never ends leaves the call here for ever.
SampleNextLine ==
    /\ mpc = "L199"
    /\ Len(positions) < Len(lines)
    /\ LET line == lines[Len(positions) + 1]
           res == discrete_trajectory(line_trajectory(line.offset),
                                      tmin, tmax, line_width, dt)
           col == WithWeights(res, line.weight)
       IN  /\ res.outcome # "running"
           /\ IF res.outcome = "RuntimeError"
              THEN mpc' = "RuntimeError" /\ UNCHANGED positions
              ELSE IF col.error # "none"
              THEN mpc' = col.error /\ UNCHANGED positions
              ELSE mpc' = "L199" /\ positions' = Append(positions, col.rays)
    /\ UNCHANGED <<width, aspect, line_width, percall, density_profile, lines,
                   evaluated, result, trajectory, tmin, tmax, dt, dtlocals,
                   procedure, region, pixel_size, ca_line_width, anisotropy,
                   covlocals, gridvars>>

RECURSIVE Concatenate(_)
\* np.concatenate(procedure): the rays of all lines, line after line
Concatenate(lists) ==
    IF lists = <<>> THEN <<>> ELSE Head(lists) \o Concatenate(Tail(lists))

\* a slip: the loop over lines is left after its first pass
FirstLineSampled == Len(positions) >= 1

\* line 199: the loop over lines is exhausted
AllLinesSampled == Len(positions) = Len(lines)

\* lines 209 and 228-232: procedure() returns, the lists are concatenated
\* (np.concatenate refuses an empty list) and coverage_approx is entered
\* with the arguments of this call and line_width=self.line_width
CallCoverageApprox ==
    /\ mpc = "L199"
    /\ AllLinesSampled
    /\ IF lines = <<>>
       THEN /\ mpc' = "ValueError"
            /\ UNCHANGED <<procedure, ca_line_width, cpc>>
       ELSE /\ procedure' = Concatenate(positions)
            /\ ca_line_width' = line_width
            /\ cpc' = "L270"
            /\ mpc' = "L229"
    /\ UNCHANGED <<width, aspect, line_width, percall, density_profile, lines,
                   evaluated, positions, result, trajectory, tmin, tmax, dt,
                   dtlocals, region, pixel_size, anisotropy,
                   warned, ibox, ibox_shape, kernel, gridvars>>

\* what the accumulation kernel hands back for a request
KernelOutput(request) == [ output_of |-> request ]

\* line 298 and the return of line 229, or the exception of coverage_approx
\* passing through Probe.coverage
LeaveCoverageApprox ==
    /\ mpc = "L229"
    /\ cpc \in { "return", "AssertionError", "NotImplementedError" }
    /\ mpc' = cpc
    /\ result' = IF cpc = "return" THEN KernelOutput(kernel) ELSE result
    /\ UNCHANGED <<width, aspect, line_width, percall, density_profile, lines,
                   evaluated, positions, trajectory, tmin, tmax, dt, dtlocals,
                   procedure, region, pixel_size, ca_line_width, anisotropy,
                   covlocals, gridvars>>

NextCall ==
    \/ LineOffsets \/ SampleNextLine \/ CallCoverageApprox
    \/ CheckRegion \/ Align \/ Unsupported \/ Kernel
    \/ LeaveCoverageApprox

(***************************************************************************)
(* tike.coverage: coverage(object_grid, object_min, object_size,           *)
(* probe_grid, probe_size, theta, h, v, dwell) with _coverage_interface    *)
(* and line_offsets.  Lengths here are rationals in centimetres; all       *)
(* values of the model are dyadic, so the float32 conversions keep them.   *)
(* An argument is None or a value; an object_grid is given by its shape,   *)
(* a probe_grid by its rows.                                               *)
(***************************************************************************)
None == [ none |-> TRUE, val |-> <<>> ]
Some(value) == [ none |-> FALSE, val |-> value ]

ObjectGrids == { None, Some(<<2, 2, 2, 1>>), Some(<<2, 2, 4>>) }
ObjectMins == { None, Some(<< RInt(0), RInt(0 - 1), RInt(0) >>) }
ObjectSizes ==
    { None, Some(<< RInt(2), RInt(2), RInt(4) >>),
            Some(<< RInt(2), RInt(0), RInt(4) >>) }
ProbeGrids ==
    { None, Some(<< <<3>> >>), Some(<< <<1, 0>>, <<0, 2>> >>),
            Some(<< <<0, 0>> >>) }
ProbeSizes ==
    { None, Some(<< RInt(2), RInt(1) >>), Some(<< RInt(1), RInt(0 - 1) >>) }
Thetas == { None, Some(<<1>>), Some(<<0, 3>>) }
Hs == { None, Some(<< RInt(1) >>), Some(<< RInt(1), Rat(0 - 3, 2) >>) }
Vs == { None, Some(<< RInt(2) >>), Some(<< Rat(1, 4), RInt(0) >>) }
\* dwell : (M, ), one entry per theta
DwellsFor(th) ==
    IF th.none THEN { None }
    ELSE { None, Some([ i \in 1 .. Len(th.val) |-> RInt(i + 1) ]) }

\* np.full(theta.shape, -0.5)
FullOf(th, value) == [ i \in 1 .. Len(th) |-> value ]

\* a slip: np.any in place of np.all
AnyPositive(size) == \E i \in 1 .. Len(size) : RLess(RInt(0), size[i])

\* np.all(size > 0)
AllPositive(size) == \A i \in 1 .. Len(size) : RLess(RInt(0), size[i])

\* theta.size == h.size == v.size
SameSize(a, b, c) == Len(a) = Len(b) /\ Len(b) = Len(c)

\* the cells (i, j) of a grid of shape (H, V) in row-major order
Cells(grid) ==
    LET V == Len(grid[1])
    IN  [ k \in 1 .. Len(grid) * V |-> << ((k - 1) \div V) + 1, ((k - 1) % V) + 1 >> ]

\* a slip: every cell is kept
AllCells(grid) == Cells(grid)

\* nonzeros = probe_grid != 0, as the cells dh[nonzeros] selects
NonZeroCells(grid) ==
    LET keep(c) == grid[c[1]][c[2]] # 0
    IN  SelectSeq(Cells(grid), keep)

\* np.linspace(0, size, num, endpoint=False) + size / num / 2
CellCenters(size, num) ==
    [ i \in 1 .. num |->
        RAdd(RMul(RInt(i - 1), RDiv(size, RInt(num))),
             RDiv(RDiv(size, RInt(num)), RInt(2))) ]

\* line_offsets(probe_grid, probe_size): meshgrid(gh, gv, indexing='ij')
\* at the non-zero cells
line_offsets(grid, size) ==
    LET gh == CellCenters(size[1], Len(grid))
        gv == CellCenters(size[2], Len(grid[1]))
        nz == NonZeroCells(grid)
    IN  [ dh |-> [ k \in 1 .. Len(nz) |-> gh[nz[k][1]] ],
          dv |-> [ k \in 1 .. Len(nz) |-> gv[nz[k][2]] ] ]

\* np.repeat(a, n)
Repeat(a, n) == [ k \in 1 .. Len(a) * n |-> a[((k - 1) \div n) + 1] ]

\* np.repeat(a, d.size).reshape(a.size, d.size) + d, row after row
RepeatPlus(a, d) ==
    [ k \in 1 .. Len(a) * Len(d) |->
        RAdd(a[((k - 1) \div Len(d)) + 1], d[((k - 1) % Len(d)) + 1]) ]

\* np.prod(size / shape) over the first n axes
RECURSIVE ProdOfQuotients(_, _, _)
ProdOfQuotients(size, shape, n) ==
    IF n = 0 THEN RInt(1)
    ELSE RMul(RDiv(size[n], RInt(shape[n])), ProdOfQuotients(size, shape, n - 1))

NoFrame ==
    [ object_min |-> <<>>, object_size |-> <<>>, probe_size |-> <<>>,
      theta |-> <<>>, h |-> <<>>, v |-> <<>>,
      th1 |-> <<>>, h1 |-> <<>>, v1 |-> <<>>, weights |-> <<>> ]

NoRequest == [ called |-> FALSE ]

IdleGrid ==
    /\ call = [ object_grid |-> None ]
    /\ frame = NoFrame
    /\ gpc = "idle"
    /\ libtike = NoRequest

\* the entry of coverage(...)
InitGrid ==
    /\ \E og \in ObjectGrids, om \in ObjectMins, os \in ObjectSizes,
          pg \in ProbeGrids, ps \in ProbeSizes, th \in Thetas,
          hh \in Hs, vv \in Vs :
          \E dw \in DwellsFor(th) :
             call = [ object_grid |-> og, object_min |-> om, object_size |-> os,
                      probe_grid |-> pg, probe_size |-> ps, theta |-> th,
                      h |-> hh, v |-> vv, dwell |-> dw ]
    /\ frame = NoFrame
    /\ gpc = "L79"
    /\ libtike = NoRequest

OrElse(arg, default) == IF arg.none THEN default ELSE arg.val

\* _coverage_interface, lines 79-102: the None tests and the defaults
Interface ==
    /\ gpc = "L79"
    /\ IF call.object_grid.none \/ call.probe_grid.none \/ call.theta.none
       THEN /\ gpc' = "ValueError"
            /\ UNCHANGED frame
       ELSE /\ frame' =
                 [ frame EXCEPT
                     !.object_min = OrElse(call.object_min,
                                       << Rat(0 - 1, 2), Rat(0 - 1, 2), Rat(0 - 1, 2) >>),
                     !.object_size = OrElse(call.object_size,
                                        << RInt(1), RInt(1), RInt(1) >>),
                     !.probe_size = OrElse(call.probe_size, << RInt(1), RInt(1) >>),
                     !.theta = call.theta.val,
                     !.h = OrElse(call.h, FullOf(call.theta.val, Rat(0 - 1, 2))),
                     !.v = OrElse(call.v, FullOf(call.theta.val, Rat(0 - 1, 2))) ]
            /\ gpc' = "L103"
    /\ UNCHANGED <<call, libtike, dtvars, probevars, covvars, callvars>>

\* _coverage_interface, lines 103-107: the three assertions
Assertions ==
    /\ gpc = "L103"
    /\ gpc' = IF /\ AllPositive(frame.object_size)
                 /\ AllPositive(frame.probe_size)
                 /\ SameSize(frame.theta, frame.h, frame.v)
              THEN "L141" ELSE "AssertionError"
    /\ UNCHANGED <<call, frame, libtike, dtvars, probevars, covvars, callvars>>

\* lines 140-141: assert len(ngrid) == 4
FourDimensions ==
    /\ gpc = "L141"
    /\ gpc' = IF Len(call.object_grid.val) = 4 THEN "L143" ELSE "AssertionError"
    /\ UNCHANGED <<call, frame, libtike, dtvars, probevars, covvars, callvars>>

\* lines 143-154: every position is repeated for every line of the probe
Expand ==
    /\ gpc = "L143"
    /\ LET grid == call.probe_grid.val
           d == line_offsets(grid, frame.probe_size)
           n == Len(d.dh)
           dw1 == IF call.dwell.none
                  THEN [ k \in 1 .. Len(frame.theta) * n |-> RInt(1) ]
                  ELSE Repeat(call.dwell.val, Len(d.dv))
           line_area == ProdOfQuotients(frame.probe_size,
                                        << Len(grid), Len(grid[1]) >>, 2)
           pixel_volume == ProdOfQuotients(frame.object_size,
                                           call.object_grid.val, 3)
       IN  frame' = [ frame EXCEPT
                        !.th1 = Repeat(frame.theta, n),
                        !.h1 = RepeatPlus(frame.h, d.dh),
                        !.v1 = RepeatPlus(frame.v, d.dv),
                        !.weights =
                            [ k \in 1 .. Len(dw1) |->
                                RDiv(RMul(dw1[k], line_area), pixel_volume) ] ]
    /\ gpc' = "L162"
    /\ UNCHANGED <<call, libtike, dtvars, probevars, covvars, callvars>>

\* lines 155-180: the one call of LIBTIKE.coverage, which fills object_grid,
\* and the return
CallLibtike ==
    /\ gpc = "L162"
    /\ libtike' = [ called |-> TRUE,
                    object_min |-> frame.object_min,
                    object_size |-> frame.object_size,
                    ngrid |-> call.object_grid.val,
                    theta |-> frame.th1,
                    h |-> frame.h1,
                    v |-> frame.v1,
                    weights |-> frame.weights,
                    count |-> Len(frame.th1) ]
    /\ gpc' = "return"
    /\ UNCHANGED <<call, frame, dtvars, probevars, covvars, callvars>>

NextGrid == Interface \/ Assertions \/ FourDimensions \/ Expand \/ CallLibtike

(***************************************************************************)
(* Specifications.                                                         *)
(***************************************************************************)
NextDT == Return \/ Raise \/ Accept \/ Bisect

\* one call of discrete_trajectory
Init == InitDT /\ IdleProbe /\ IdleCov /\ IdleCall /\ IdleGrid

Spec == Init /\ [][NextDT]_vars

\* the loop is sequential code: an enabled iteration is taken
FairSpec == Init /\ [][NextDT]_vars /\ WF_vars(NextDT)

\* one call of discrete_trajectory on a path with one jump
InitOfJump == InitJump /\ IdleProbe /\ IdleCov /\ IdleCall /\ IdleGrid

SpecJump == InitOfJump /\ [][NextDT]_vars

\* one call of coverage_approx
InitOfCov == InitCov /\ IdleDT /\ IdleProbe /\ IdleCall /\ IdleGrid

SpecCov == InitOfCov /\ [][NextCov]_vars

\* two calls of Probe.coverage on the same Probe object, interleaved
InitOfProbe == InitProbe /\ IdleDT /\ IdleCov /\ IdleCall /\ IdleGrid

SpecProbe == InitOfProbe /\ [][NextProbe]_vars

\* one call of Probe.coverage on a fresh Probe
InitOfCall == InitCall /\ IdleGrid

SpecCall == InitOfCall /\ [][NextCall]_vars

\* one call of coverage.coverage
InitOfGrid == InitGrid /\ IdleDT /\ IdleProbe /\ IdleCov /\ IdleCall

SpecGrid == InitOfGrid /\ [][NextGrid]_vars

(***************************************************************************)
(* Properties of discrete_trajectory.  The distance they speak of is the   *)
(* embedded distance itself, written out from thetahv_to_xyz.              *)
(***************************************************************************)
Sq(n) == n * n

EmbeddedDist2(a, b) ==
    LET A == thetahv_to_xyz(a)
        B == thetahv_to_xyz(b)
    IN  Sq(A[1] - B[1]) + Sq(A[2] - B[2]) + Sq(A[3] - B[3])

Near(a, b) == dx >= 0 /\ EmbeddedDist2(a, b) <= dx * dx

RECURSIVE SumSeq(_)
SumSeq(s) == IF s = <<>> THEN 0 ELSE s[1] + SumSeq(Tail(s))

CeilDiv(a, b) == (a + b - 1) \div b

Returned == pc = "return"

\* the point accepted right after sample i of a returned call
AcceptedAfter(i) == IF i < Len(position) THEN position[i + 1] ELSE trajectory[tmax]

JumpAt(s) ==
    \A a \in tmin .. s - 1 : \A b \in s .. tmax :
        ~ Near(trajectory[a], trajectory[b])

HasJump == dt > 0 /\ \E s \in tmin + 1 .. tmax : JumpAt(s)

\* C3: when the trajectory has a jump at some s in (tmin, tmax] that exceeds
\* dx, the call ends with the non-convergence RuntimeError, for every dt > 0
\* and every max_iter >= 0.
C3_JumpRaises == HasJump => <>(pc = "RuntimeError")

\* the displacement over every uniform step from tmin is at most dx
UniformStepsNear ==
    /\ dx >= 0 /\ dt > 0 /\ tmin < tmax
    /\ \A k \in 0 .. MaxT :
          tmin + k * dt < tmax =>
              Near(trajectory[tmin + k * dt],
                   trajectory[Min(tmin + (k + 1) * dt, tmax)])

C5_Terminates == dt > 0 => <>(pc \in {"return", "RuntimeError"})

\* C8: a call with dt <= 0 and tmin < tmax is rejected before any sample is
\* recorded.
C8_NonPositiveDtRejected ==
    (dt <= 0 /\ tmin < tmax) => (time = <<>> /\ dwell = <<>> /\ position = <<>>)

(***************************************************************************)
(* Properties of Probe.coverage on a shared Probe.                         *)
(***************************************************************************)
\* width / ceil(width / (pixel_size/16)) for the call's own pixel_size
OwnLineWidth(c) ==
    Rat(width, RCeil(RDiv(RInt(width), Rat(p_pixel_size[c], 16))))

\* the places of a call after line 195 and after the read of line 231
AfterL195 == { "L199", "L270", "return", "RuntimeError", "ValueError", "AssertionError" }
AfterL231 == { "L270", "return", "AssertionError" }

\* C6: two concurrent calls on one Probe with different pixel_size never
\* interfere: the dx a call passes to discrete_trajectory and the line_width
\* it passes to coverage_approx are the line_width derived from its own
\* pixel_size.
C6_NoInterference ==
    \A c \in Calls :
        /\ ppc[c] \in AfterL195 => p_dx[c] = OwnLineWidth(c)
        /\ ppc[c] \in AfterL231 => p_line_width[c] = OwnLineWidth(c)

\* C7: a call with an unordered region is rejected before any sampling: no
\* call of discrete_trajectory precedes the invalid-region error.
C7_RejectedBeforeSampling ==
    \A c \in Calls : ppc[c] = "AssertionError" => ndt[c] = 0

\* C18: the non-convergence error is raised only when more than max_iter
\* candidates accumulated on the deferred stack with no acceptance in
\* between; entries deferred before an acceptance do not count, so the
\* error needs max_iter consecutive rejections and a run whose accepted
\* steps needed at most max_iter - 1 of them each never raises.
C18_RaisedAfterMaxIterRejections ==
    pc = "RuntimeError" => rejections >= max_iter

\* a program that calls both line-offset generators: Probe.line_offsets of
\* a resting probe, and coverage.coverage with arguments that pass
\* _coverage_interface and a 4-dimensional object_grid
InitOfOffsets ==
    /\ InitCall
    /\ trajectory = [ s \in CallTimes |-> <<0, 0, 0>> ]
    /\ tmax = 2 /\ dt = 2 /\ ~ anisotropy
    /\ region = [ a \in Axes |-> <<0, 40>> ]
    /\ InitGrid
    /\ ~ call.object_grid.none /\ Len(call.object_grid.val) = 4
    /\ ~ call.probe_grid.none /\ ~ call.theta.none
    /\ call.object_min.none
    /\ call.object_size.none \/ AllPositive(call.object_size.val)
    /\ call.probe_size.none \/ AllPositive(call.probe_size.val)
    /\ call.h.none
    /\ call.v.none \/ Len(call.v.val) = Len(call.theta.val)

NextOffsets == LineOffsets \/ NextGrid

SpecOffsets == InitOfOffsets /\ [][NextOffsets]_vars

\* the parts of C21, at the start of a loop iteration of a call with dt > 0
AtLoopStart == pc = "while" /\ dt > 0
StackDepthBounded == AtLoopStart => Len(nextxt) <= max_iter + 1
StackTimesDescend ==
    AtLoopStart => \A i \in 1 .. Len(nextxt) - 1 : nextxt[i][2] > nextxt[i + 1][2]
StackTimesAhead ==
    AtLoopStart => \A i \in 1 .. Len(nextxt) : nextxt[i][2] > t
StackTimesInStep ==
    AtLoopStart =>
        \A i \in 1 .. Len(nextxt) : nextxt[i][2] <= Min(t0 + dt, tmax)
StackPositionsMatch ==
    AtLoopStart =>
        \A i \in 1 .. Len(nextxt) : nextxt[i][1] = trajectory[nextxt[i][2]]

\* C21: at the start of every loop iteration of discrete_trajectory with
\* dt > 0 the deferred stack holds at most max_iter + 1 entries, its entry
\* times decrease strictly from bottom to top, every entry time is greater
\* than the last accepted time t and at most min(t0 + dt, tmax), t0 the
\* accepted time at which the stack was last empty, and every entry's
\* position is trajectory at its time.
C21_StackInvariant ==
    /\ StackDepthBounded
    /\ StackTimesDescend
    /\ StackTimesAhead
    /\ StackTimesInStep
    /\ StackPositionsMatch

\* the times uniform sampling with step dt records: tmin + k * dt below tmax
UniformTimes == { u \in tmin .. tmax - 1 : (u - tmin) % dt = 0 }
RecordedTimes == { time[i] : i \in 1 .. Len(time) }

IsMultiple(b, ps) == \E k \in (0 - MaxB - 2) .. (MaxB + 2) : b = k * ps

SomeBoundOff ==
    \E a \in Axes :
        \/ ~ IsMultiple(region[a][1], pixel_size)
        \/ ~ IsMultiple(region[a][2], pixel_size)

AfterAlign == { "L281", "return", "NotImplementedError" }

\* C9: for an ordered region and pixel_size > 0 the alignment warning is
\* emitted if and only if one of the six bounds is not an integer multiple
\* of pixel_size, and a misaligned bound causes no error: the call goes on
\* to the kernel with the rounded grid.
C9_WarnIffMisaligned ==
    RegionOrdered(region) =>
        /\ cpc # "AssertionError"
        /\ cpc = "NotImplementedError" => anisotropy
        /\ cpc \in AfterAlign => (warned <=> SomeBoundOff)
        /\ cpc \notin AfterAlign => ~ warned
        /\ cpc = "return" =>
              /\ kernel.called
              /\ kernel.grid_shape = ibox_shape

\* a call that warned for one axis while another axis is aligned, and went
\* on to the kernel
C9_Witness ==
    /\ cpc = "return" /\ warned /\ kernel.called
    /\ \E a \in Axes : region[a][2] % pixel_size # 0
    /\ \E a \in Axes : IsMultiple(region[a][1], pixel_size)
                       /\ IsMultiple(region[a][2], pixel_size)
                       /\ region[a][1] < region[a][2]

\* C10: for an ordered region and pixel_size > 0 the grid covers the region:
\* per axis lo = floor(min/pixel_size) and hi = ceil(max/pixel_size), so
\* lo * pixel_size <= min and hi * pixel_size >= max, the shape is
\* hi - lo >= 0, and for aligned bounds the shape is (max - min)/pixel_size.
C10_GridCoversRegion ==
    (RegionOrdered(region) /\ cpc \in AfterAlign) =>
        \A a \in Axes :
            LET lo == ibox[a][1]
                hi == ibox[a][2]
                mn == region[a][1]
                mx == region[a][2]
            IN  /\ lo * pixel_size <= mn /\ mn < (lo + 1) * pixel_size
                /\ hi * pixel_size >= mx /\ mx > (hi - 1) * pixel_size
                /\ ibox_shape[a] = hi - lo
                /\ ibox_shape[a] >= 0
                /\ (IsMultiple(mn, pixel_size) /\ IsMultiple(mx, pixel_size)) =>
                       ibox_shape[a] * pixel_size = mx - mn

\* a grid with one axis rounded outward at both ends, the lower one negative,
\* and one axis of aligned bounds
C10_Witness ==
    /\ cpc = "return" /\ RegionOrdered(region)
    /\ \E a \in Axes : /\ ibox[a][1] * pixel_size < region[a][1]
                       /\ region[a][1] < 0
                       /\ region[a][1] < region[a][2]
                       /\ ibox[a][2] * pixel_size > region[a][2]
    /\ \E a \in Axes : /\ ibox_shape[a] >= 1
                       /\ ibox_shape[a] * pixel_size = region[a][2] - region[a][1]

RayInPixels(ray) ==
    << ray[1],
       Rat(ray[2][1], ray[2][2] * pixel_size),
       Rat(ray[3][1], ray[3][2] * pixel_size),
       Rat(ray[4][1] * ca_line_width[1] * ca_line_width[1],
           ray[4][2] * ca_line_width[2] * ca_line_width[2]
               * pixel_size * pixel_size) >>

KernelGetsScaledRays ==
    kernel.called =>
        /\ Len(kernel.rays) = Len(procedure)
        /\ \A i \in 1 .. Len(procedure) : kernel.rays[i] = RayInPixels(procedure[i])

\* C16: for every ray [theta, h, v, weight] of the procedure given to
\* coverage_approx the kernel receives theta unchanged, h / pixel_size,
\* v / pixel_size and weight * line_width^2 / pixel_size^2, in the same
\* order, one entry per ray; the caller's procedure and region are never
\* modified.
C16_KernelInputs ==
    /\ [] KernelGetsScaledRays
    /\ [][procedure' = procedure /\ region' = region]_vars

\* a kernel call for two rays with rescaled coordinates and weights
C16_Witness ==
    /\ cpc = "return" /\ kernel.called
    /\ Len(procedure) = 2
    /\ pixel_size > 1
    /\ ca_line_width # RInt(1)
    /\ \E i \in 1 .. 2 : kernel.rays[i][2] # procedure[i][2]
    /\ \E i \in 1 .. 2 : kernel.rays[i][3] # procedure[i][3]
    /\ \A i \in 1 .. 2 : kernel.rays[i][4] # procedure[i][4]

\* ceil(max / pixel_size) - floor(min / pixel_size) along each axis
QuantizedShape(box) ==
    [ a \in Axes |->
        (0 - ((0 - box[a][2]) \div pixel_size)) - (box[a][1] \div pixel_size) ]

\* the request lines 276-298 make for this call's procedure, pixel_size and
\* line_width when the region is box
RequestFor(box) ==
    [ called |-> TRUE,
      grid_shape |-> [ a \in Axes |-> IboxHi(box[a][2], pixel_size)
                                        - IboxLo(box[a][1], pixel_size) ],
      rays |-> [ i \in 1 .. Len(procedure) |->
                   ScaleRay(procedure[i], pixel_size, ca_line_width) ] ]

\* the valid regions of the same pixel-quantized shape as this call's that
\* differ from it along one axis; every region of that shape is reached
\* from this call's by moving one axis at a time through such regions, and
\* each of them is the region of a call with the same other arguments
SameShapeRegions ==
    { box \in { [ region EXCEPT ![a] = pr ] : a \in Axes, pr \in Coords \X Coords } :
        RegionOrdered(box) /\ QuantizedShape(box) = QuantizedShape(region) }

\* C23: the request coverage_approx sends to the kernel depends on the
\* region only through its pixel-quantized shape: a call with the same
\* procedure, pixel_size and line_width and any valid region with equal
\* ceil(max / pixel_size) - floor(min / pixel_size) per axis sends the same
\* grid, theta, h, v and weight, wherever the region lies; no grid origin is
\* passed and the rays are not shifted by the region minimum.
C23_RegionOnlyThroughShape ==
    kernel.called =>
        /\ DOMAIN kernel = { "called", "grid_shape", "rays" }
        /\ kernel.grid_shape = QuantizedShape(region)
        /\ \A i \in 1 .. Len(procedure) : kernel.rays[i] = RayInPixels(procedure[i])
        /\ \A box \in SameShapeRegions : RequestFor(box) = kernel

\* a kernel call for a region with cells along every axis that shares its
\* shape, along every axis, with a region at another position
C23_Witness ==
    /\ kernel.called /\ cpc = "return"
    /\ \A a \in Axes : kernel.grid_shape[a] >= 1
    /\ pixel_size > 1
    /\ \A a \in Axes : \E box \in SameShapeRegions :
          box[a][1] # region[a][1] /\ box[a][2] # region[a][2]

(***************************************************************************)
(* Properties of Probe.line_offsets, Probe.procedure and Probe.coverage,   *)
(* over one sequential call.                                               *)
(***************************************************************************)
\* line_offsets has returned its list
LineOffsetsReturned == mpc \notin { "idle", "L194", "NotImplementedError" }

\* the least n with n * (pixel_size / 16) >= width
CellCount ==
    CHOOSE n \in 1 .. 16 * width :
        /\ n * pixel_size >= 16 * width
        /\ \A m \in 1 .. n - 1 : m * pixel_size < 16 * width

\* the distinct h and v coordinates of the subline centers
CentersH == { lines[k].offset[2] : k \in 1 .. Len(lines) }
CentersV == { lines[k].offset[3] : k \in 1 .. Len(lines) }

\* the part of C12 about line_width alone
LineWidthDividesWidth ==
    LineOffsetsReturned =>
        /\ line_width[1] * CellCount = width * line_width[2]
        /\ 16 * line_width[1] <= pixel_size * line_width[2]
        /\ \A m \in 1 .. CellCount - 1 : 16 * width > pixel_size * m

\* C12: after a successful line_offsets(pixel_size), with
\* n = ceil(width / (pixel_size / 16)), line_width is width / n: it is at
\* most pixel_size / 16, n * line_width is width, and no larger width / m
\* is at most pixel_size / 16; the subline centers have exactly n distinct
\* h coordinates.
C12_LineWidthAndCount ==
    /\ LineWidthDividesWidth
    /\ LineOffsetsReturned => Cardinality(CentersH) = CellCount

\* line_offsets raised its NotImplementedError (coverage_approx, which raises
\* the same type for anisotropy, was not entered)
ProbeRefused == mpc = "NotImplementedError" /\ cpc = "idle"

ProbeSmallerThanLine ==
    \/ 16 * width < pixel_size
    \/ 16 * width * aspect[1] < pixel_size * aspect[2]

\* C13: line_offsets raises NotImplementedError exactly when
\* width < pixel_size / 16 or width * aspect < pixel_size / 16, without
\* evaluating density_profile; through procedure and coverage the error
\* leaves the call before any line is sampled.
C13_RefusedBeforeSampling ==
    /\ mpc # "L194" => (ProbeRefused <=> ProbeSmallerThanLine)
    /\ ProbeRefused =>
          /\ evaluated = 0
          /\ lines = <<>>
          /\ positions = <<>>
          /\ ~ kernel.called

\* a probe wide enough but not high enough, refused
C13_Witness ==
    /\ ProbeRefused
    /\ 16 * width >= pixel_size
    /\ 16 * width * aspect[1] < pixel_size * aspect[2]

RNeg(a) == << 0 - a[1], a[2] >>

\* every center of the set lies in [-extent/2, extent/2]
InsideHalf(centers, extent) ==
    \A c \in centers :
        /\ RLeq(RNeg(extent), RMul(RInt(2), c))
        /\ RLeq(RMul(RInt(2), c), extent)

\* the part of C14 about the probe rectangle
CentersInsideProbe ==
    LineOffsetsReturned =>
        /\ InsideHalf(CentersH, RInt(width))
        /\ InsideHalf(CentersV, Height)

\* C14: the subline centers line_offsets returns are symmetric about (0, 0)
\* on both axes and lie inside [-width/2, width/2] x [-height/2, height/2],
\* also when height is not an integer multiple of line_width.
C14_CentersSymmetric ==
    /\ CentersInsideProbe
    /\ LineOffsetsReturned =>
          /\ \A c \in CentersH : RNeg(c) \in CentersH
          /\ \A c \in CentersV : RNeg(c) \in CentersV

\* procedure() has returned its list to Probe.coverage
ProcedureReturned == cpc # "idle"

\* the path t -> trajectory(t) + (0, dh, dv) of a subline
ShiftedPath(line) ==
    [ s \in CallTimes |->
        << trajectory[s][1],
           RAdd(RInt(trajectory[s][2]), line.offset[2]),
           RAdd(RInt(trajectory[s][3]), line.offset[3]) >> ]

RECURSIVE SumOfWeights(_)
SumOfWeights(rays) ==
    IF rays = <<>> THEN RInt(0) ELSE RAdd(rays[1][4], SumOfWeights(Tail(rays)))

\* the ray list i is what C15 says it is
RayListAsClaimed(i) ==
    LET line == lines[i]
        w == line.weight.val
        res == discrete_trajectory(ShiftedPath(line), tmin, tmax, line_width, dt)
        rays == positions[i]
    IN  /\ line.offset[1] = 0
        /\ res.outcome = "return"
        /\ Len(rays) = Len(res.position)
        /\ \A k \in 1 .. Len(rays) :
              rays[k] = << res.position[k][1], res.position[k][2],
                           res.position[k][3], RMul(RInt(res.dwell[k]), w) >>
        /\ SumOfWeights(rays) = RMul(RInt(tmax - tmin), w)

\* the part of C15 about the lists procedure has built: one per sampled
\* subline, in subline order, each as claimed
ReturnedRaysAsClaimed ==
    /\ Len(positions) <= Len(lines)
    /\ ProcedureReturned => Len(positions) = Len(lines)
    /\ \A i \in 1 .. Len(positions) : RayListAsClaimed(i)

\* C15: procedure returns one ray list per subline, in subline order; the
\* list of subline (0, dh, dv) with weight w is the result of
\* discrete_trajectory on the path t -> trajectory(t) + (0, dh, dv) with
\* dx = line_width and the caller's tmin, tmax, dt, each ray being
\* [theta, h, v, dwell * w], and the weights of the list sum to
\* (tmax - tmin) * w.  A sampled line therefore gets its list: attaching the
\* column dwell * w does not fail.
C15_RaysPerSubline ==
    /\ ReturnedRaysAsClaimed
    /\ mpc \notin { "TypeError", "ValueError" }

(***************************************************************************)
(* Properties of coverage.coverage.                                        *)
(***************************************************************************)
MissingArgument ==
    call.object_grid.none \/ call.probe_grid.none \/ call.theta.none

NonPositive(arg) ==
    ~ arg.none /\ \E i \in 1 .. Len(arg.val) : arg.val[i][1] <= 0

\* the number of entries h or v has once a missing one is filled in
SizeOrThetas(arg) == IF arg.none THEN Len(call.theta.val) ELSE Len(arg.val)

FailsAnAssertion ==
    \/ NonPositive(call.object_size)
    \/ NonPositive(call.probe_size)
    \/ SizeOrThetas(call.h) # Len(call.theta.val)
    \/ SizeOrThetas(call.v) # Len(call.theta.val)
    \/ Len(call.object_grid.val) # 4

GridCallEnded == gpc \in { "return", "ValueError", "AssertionError" }

\* C17: coverage.coverage rejects a precondition violation before
\* LIBTIKE.coverage is invoked, so before object_grid is written: a None
\* object_grid, probe_grid or theta raises ValueError; a non-positive
\* component of object_size or probe_size, theta, h, v of unequal sizes or an
\* object_grid that is not 4-dimensional fails an assertion.  A missing h or
\* v is no error: it is -0.5 for every theta.
C17_RejectedBeforeKernel ==
    /\ MissingArgument =>
          /\ ~ libtike.called
          /\ GridCallEnded => gpc = "ValueError"
    /\ (~ MissingArgument /\ FailsAnAssertion) =>
          /\ ~ libtike.called
          /\ GridCallEnded => gpc = "AssertionError"
    /\ (~ MissingArgument /\ ~ FailsAnAssertion) =>
          /\ GridCallEnded => (gpc = "return" /\ libtike.called)
          /\ (gpc \notin { "L79" } /\ call.h.none) =>
                /\ Len(frame.h) = Len(call.theta.val)
                /\ \A i \in 1 .. Len(frame.h) : frame.h[i] = << 0 - 1, 2 >>
          /\ (gpc \notin { "L79" } /\ call.v.none) =>
                /\ Len(frame.v) = Len(call.theta.val)
                /\ \A i \in 1 .. Len(frame.v) : frame.v[i] = << 0 - 1, 2 >>

\* a call without h, with sizes and lengths in order, rejected at the last
\* check for its 3-dimensional object_grid
C17_Witness ==
    /\ gpc = "AssertionError"
    /\ ~ MissingArgument
    /\ call.h.none /\ ~ call.v.none
    /\ Len(call.theta.val) = 2
    /\ ~ NonPositive(call.object_size) /\ ~ NonPositive(call.probe_size)
    /\ SizeOrThetas(call.v) = 2
    /\ Len(call.object_grid.val) = 3
    /\ frame.h = << << 0 - 1, 2 >>, << 0 - 1, 2 >> >>
    /\ ~ libtike.called

\* the probe_grid cells that are not zero, and the center of cell i of num
\* along an axis of the given size
NonZeroEntries ==
    LET grid == call.probe_grid.val
    IN  { c \in (1 .. Len(grid)) \X (1 .. Len(grid[1])) : grid[c[1]][c[2]] # 0 }
CenterOf(i, num, size) == RDiv(RMul(RInt(2 * i - 1), size), RInt(2 * num))

\* Probe.line_offsets returned one subline for every pair of an h and a v
\* center, zero weight or not, each [0, h, v] with its density
EveryCenterReturned ==
    LineOffsetsReturned =>
        /\ Len(lines) = Cardinality(CentersH) * Cardinality(CentersV)
        /\ \A h \in CentersH, v \in CentersV :
              \E k \in 1 .. Len(lines) :
                 lines[k] = [ offset |-> << 0, h, v >>,
                              weight |-> Density(density_profile, h, v) ]

\* coverage.line_offsets returns the centers of the non-zero cells only
NonZeroOffsetsOnly ==
    gpc \in { "L143", "L162", "return" } =>
        LET grid == call.probe_grid.val
            d == line_offsets(grid, frame.probe_size)
        IN  /\ Len(d.dh) = Len(d.dv)
            /\ Len(d.dh) = Cardinality(NonZeroEntries)
            /\ { << d.dh[k], d.dv[k] >> : k \in 1 .. Len(d.dh) } =
                  { << CenterOf(c[1], Len(grid), frame.probe_size[1]),
                       CenterOf(c[2], Len(grid[1]), frame.probe_size[2]) >> :
                    c \in NonZeroEntries }

\* the four arrays of the kernel have one entry per position and kept line
KernelArraysPerLine ==
    libtike.called =>
        LET n == Len(call.theta.val) * Cardinality(NonZeroEntries)
        IN  /\ Len(libtike.theta) = n /\ Len(libtike.h) = n
            /\ Len(libtike.v) = n /\ Len(libtike.weights) = n
            /\ libtike.count = n

\* C19: Probe.line_offsets returns every grid center, zero weight included:
\* (h-count) x (v-count) sublines, each with theta offset 0 and weight
\* density_profile(dh, dv); coverage.line_offsets returns exactly the
\* offsets of the non-zero probe_grid entries, dh and dv of equal length,
\* and coverage.coverage passes the kernel theta, h, v and weights of
\* length (number of positions) x (number of non-zero lines).
C19_ZeroWeightPolicies ==
    /\ EveryCenterReturned
    /\ NonZeroOffsetsOnly
    /\ KernelArraysPerLine

\* Probe.line_offsets kept a subline of weight zero, and the kernel of
\* coverage.coverage got 2 positions x 2 lines of a probe_grid with two
\* zero cells of four
C19_Witness ==
    /\ LineOffsetsReturned
    /\ \E k \in 1 .. Len(lines) : lines[k].weight.val = RInt(0)
    /\ \E k \in 1 .. Len(lines) : lines[k].weight.val # RInt(0)
    /\ libtike.called
    /\ call.probe_grid.val = << <<1, 0>>, <<0, 2>> >>
    /\ Len(call.theta.val) = 2
    /\ libtike.count = 4
    /\ ~ call.dwell.none

\* the number of rays of the sublines before subline i
RECURSIVE RaysBefore(_)
RaysBefore(i) == IF i = 1 THEN 0 ELSE RaysBefore(i - 1) + Len(positions[i - 1])

\* the kernel was called after the last subline was sampled, with every ray
\* of every subline, line after line, in pixel units, and a grid of
\* ceil(max / pixel_size) - floor(min / pixel_size) cells along each axis
KernelCalledWithBatch ==
    kernel.called =>
        /\ lines # <<>>
        /\ Len(positions) = Len(lines)
        /\ Len(kernel.rays) = RaysBefore(Len(lines) + 1)
        /\ \A i \in 1 .. Len(lines) : \A j \in 1 .. Len(positions[i]) :
              kernel.rays[RaysBefore(i) + j] = RayInPixels(positions[i][j])
        /\ \A a \in Axes :
              kernel.grid_shape[a] =
                  RCeil(Rat(region[a][2], pixel_size))
                      - RFloor(Rat(region[a][1], pixel_size))

\* C20: in every successful Probe.coverage call the accumulation kernel is
\* invoked exactly once, only after every subline was sampled, with the
\* concatenation of all sublines' rays as one batch and a zero grid of the
\* pixel-quantized shape, and Probe.coverage returns the kernel's output
\* unchanged; if the sampling of a subline raises, the kernel is never
\* invoked.
C20_OneKernelCallAfterSampling ==
    /\ [] KernelCalledWithBatch
    /\ [] (mpc = "return" => kernel.called /\ result = [ output_of |-> kernel ])
    /\ [] (mpc \in { "RuntimeError", "TypeError", "ValueError" } => ~ kernel.called)
    /\ [][kernel.called => kernel' = kernel /\ positions' = positions]_vars

\* a successful call of a probe of four sublines, two rays each
C20_Witness ==
    /\ mpc = "return"
    /\ Len(lines) = 4
    /\ \A i \in 1 .. 4 : Len(positions[i]) = 2
    /\ Len(kernel.rays) = 8
    /\ result = [ output_of |-> kernel ]

====
